---------------------------- MODULE Spec2Model ----------------------------
(***************************************************************************)
(* JSON / JSONL to YAML conversion of vsc-json-yaml-bridge.                *)
(*                                                                         *)
(* Text is a sequence of one-character strings.  A JSON value is a record  *)
(* tagged by t: "null", "bool" (b), "num" (n, the canonical decimal text   *)
(* that Number.prototype.toString gives), "str" (s), "arr" (a, a sequence *)
(* of values) and "obj" (o, a sequence of [k, v] properties in creation    *)
(* order, which for a parsed text is the order its keys are written in).   *)
(*                                                                         *)
(* The repository holds the emitter twice: src/yamlConverter.ts (impl      *)
(* "converter") and the copy at the bottom of src/extension.ts (impl       *)
(* "extension").  extension.ts both imports jsonToYaml from yamlConverter  *)
(* and declares its own, so which of the two a call in extension.ts        *)
(* reaches is decided by the build; the model leaves it open (impl).       *)
(***************************************************************************)
EXTENDS Integers, Sequences, FiniteSets, TLC

VARIABLES
  impl,       \* the copy of the emitter the build binds: "converter" | "extension"
  mode,       \* the entry point running: "jsonl" | "json" | "emit" | "walk"
  text,       \* the text handed to the command
  pc,         \* the position of the running call
  lines,      \* convertJsonlToYaml: jsonlText.split('\n')
  i,          \* convertJsonlToYaml: the loop index (0-based)
  yamlLines,  \* convertJsonlToYaml: the blocks collected so far
  output,     \* the text the call returned
  message,    \* the message of the error shown to the caller
  value,      \* valueToYaml: the value argument
  indent,     \* valueToYaml: the indent argument
  yaml,       \* valueToYaml: the text returned
  cur,        \* the argument of the innermost pending call of valueToYaml
  depth       \* the number of calls of valueToYaml pending below the outermost

vars == <<impl, mode, text, pc, lines, i, yamlLines, output, message,
          value, indent, yaml, cur, depth>>

-----------------------------------------------------------------------------
(* Characters and text primitives (String.prototype methods)               *)

NL == "\n"
TAB == "\t"
CR == "\r"
BS == "\\"
DQ == "\""
SP == " "
\* the grave accent (U+0060), which a string literal of this module cannot hold
GRAVE == "U+0060"

Digits == {"0", "1", "2", "3", "4", "5", "6", "7", "8", "9"}

DigitVal(c) ==
  CASE c = "0" -> 0 [] c = "1" -> 1 [] c = "2" -> 2 [] c = "3" -> 3
    [] c = "4" -> 4 [] c = "5" -> 5 [] c = "6" -> 6 [] c = "7" -> 7
    [] c = "8" -> 8 [] OTHER -> 9

\* the characters /\s/ and String.prototype.trim treat as white space
WhiteSpace == {SP, TAB, NL, CR}

\* the white space the JSON grammar allows between tokens
JsonWs == {SP, TAB, NL, CR}

\* str.startsWith(p)
StartsWith(s, p) == Len(s) >= Len(p) /\ SubSeq(s, 1, Len(p)) = p

\* str.endsWith(p)
EndsWith(s, p) == Len(s) >= Len(p) /\ SubSeq(s, Len(s) - Len(p) + 1, Len(s)) = p

\* str.includes(p)
Includes(s, p) ==
  \E k \in 1..(Len(s) - Len(p) + 1) : SubSeq(s, k, k + Len(p) - 1) = p

\* ' '.repeat(n)
RECURSIVE Spaces(_)
Spaces(n) == IF n <= 0 THEN <<>> ELSE <<SP>> \o Spaces(n - 1)

\* str.split('\n'): always at least one element
\* the pieces of s from position k on, one piece up to each line break
RECURSIVE SplitFrom(_, _)
SplitFrom(s, k) ==
  LET breaks == {j \in k..Len(s) : s[j] = NL}
  IN  IF breaks = {} THEN <<SubSeq(s, k, Len(s))>>
      ELSE LET n == CHOOSE j \in breaks : \A m \in breaks : j <= m
           IN  <<SubSeq(s, k, n - 1)>> \o SplitFrom(s, n + 1)

Split(s) == SplitFrom(s, 1)

\* arr.join(sep)
RECURSIVE Join(_, _)
Join(ls, sep) ==
  IF Len(ls) = 0 THEN <<>>
  ELSE IF Len(ls) = 1 THEN ls[1]
  ELSE ls[1] \o sep \o Join(Tail(ls), sep)

\* str.trim()
RECURSIVE TrimLeft(_)
TrimLeft(s) ==
  IF Len(s) > 0 /\ s[1] \in WhiteSpace THEN TrimLeft(Tail(s)) ELSE s

RECURSIVE TrimRight(_)
TrimRight(s) ==
  IF Len(s) > 0 /\ s[Len(s)] \in WhiteSpace
  THEN TrimRight(SubSeq(s, 1, Len(s) - 1)) ELSE s

Trim(s) == TrimRight(TrimLeft(s))

-----------------------------------------------------------------------------
(* JSON values                                                             *)

Null == [t |-> "null"]
Bool(b) == [t |-> "bool", b |-> b]
Num(n) == [t |-> "num", n |-> n]
Str(s) == [t |-> "str", s |-> s]
Arr(a) == [t |-> "arr", a |-> a]
Obj(o) == [t |-> "obj", o |-> o]
Prop(k, v) == [k |-> k, v |-> v]


-----------------------------------------------------------------------------
(* JSON.parse, the parsing oracle of jsonToYaml and of valueToYaml.  The   *)
(* grammar is ECMA-404 over the model's characters: literals, numbers with *)
(* an optional fraction, strings with the escapes \" \\ \/ \n \t \r,       *)
(* arrays and objects.  Exponents and the escapes \b \f \uXXXX name        *)
(* numbers and characters that no text of the model holds.                 *)

Fail == [ok |-> FALSE, v |-> Null, p |-> 0]
Ok(v, p) == [ok |-> TRUE, v |-> v, p |-> p]

RECURSIVE SkipWs(_, _)
SkipWs(s, k) == IF k <= Len(s) /\ s[k] \in JsonWs THEN SkipWs(s, k + 1) ELSE k

RECURSIVE ScanDigits(_, _)
ScanDigits(s, k) == IF k <= Len(s) /\ s[k] \in Digits THEN ScanDigits(s, k + 1) ELSE k

RECURSIVE StripZeros(_)
StripZeros(f) ==
  IF Len(f) > 0 /\ f[Len(f)] = "0" THEN StripZeros(SubSeq(f, 1, Len(f) - 1)) ELSE f

\* Number.prototype.toString of the number a JSON number token denotes
NumberText(neg, int, frac) ==
  LET f == StripZeros(frac)
      zero == int = <<"0">> /\ f = <<>>
  IN  (IF neg /\ ~zero THEN <<"-">> ELSE <<>>) \o int
        \o (IF f = <<>> THEN <<>> ELSE <<".">> \o f)

ParseNumber(s, k) ==
  LET neg == s[k] = "-"
      k1 == IF neg THEN k + 1 ELSE k
  IN  IF k1 > Len(s) \/ s[k1] \notin Digits THEN Fail
      ELSE LET k2 == IF s[k1] = "0" THEN k1 + 1 ELSE ScanDigits(s, k1)
               hasFrac == k2 <= Len(s) /\ s[k2] = "."
               k3 == IF hasFrac THEN ScanDigits(s, k2 + 1) ELSE k2
           IN  IF hasFrac /\ k3 = k2 + 1 THEN Fail
               ELSE IF k3 <= Len(s) /\ s[k3] \in {"e", "E"} THEN Fail
               ELSE Ok(Num(NumberText(neg, SubSeq(s, k1, k2 - 1),
                                      IF hasFrac THEN SubSeq(s, k2 + 1, k3 - 1) ELSE <<>>)),
                       k3)

ParseLiteral(s, k, word, v) ==
  IF k + Len(word) - 1 <= Len(s) /\ SubSeq(s, k, k + Len(word) - 1) = word
  THEN Ok(v, k + Len(word)) ELSE Fail

Escapable == {DQ, BS, "/", "n", "t", "r"}

Unescape(e) ==
  CASE e = "n" -> NL [] e = "t" -> TAB [] e = "r" -> CR [] OTHER -> e

\* the characters of a string token from position k on, up to its closing quote
RECURSIVE ParseStringBody(_, _, _)
ParseStringBody(s, k, acc) ==
  IF k > Len(s) THEN Fail
  ELSE IF s[k] = DQ THEN Ok(Str(acc), k + 1)
  ELSE IF s[k] = BS THEN
         IF k + 1 <= Len(s) /\ s[k + 1] \in Escapable
         THEN ParseStringBody(s, k + 2, Append(acc, Unescape(s[k + 1])))
         ELSE Fail
  ELSE IF s[k] \in {NL, TAB, CR} THEN Fail
  ELSE ParseStringBody(s, k + 1, Append(acc, s[k]))

RECURSIVE TextToNat(_)
TextToNat(ds) ==
  IF Len(ds) = 0 THEN 0
  ELSE 10 * TextToNat(SubSeq(ds, 1, Len(ds) - 1)) + DigitVal(ds[Len(ds)])

\* a property key that is a canonical array index ("0", "7", "12": no sign, no
\* leading zero); the model's keys are far below 2^32 - 1
IsArrayIndex(k) ==
  /\ Len(k) > 0
  /\ \A j \in 1..Len(k) : k[j] \in Digits
  /\ (k[1] = "0" => Len(k) = 1)

\* CreateDataProperty: a repeated key keeps its place and takes the new value
DefineProp(props, k, v) ==
  IF \E j \in 1..Len(props) : props[j].k = k
  THEN [j \in 1..Len(props) |-> IF props[j].k = k THEN Prop(k, v) ELSE props[j]]
  ELSE Append(props, Prop(k, v))

RECURSIVE SortIndexProps(_)
SortIndexProps(ps) ==
  IF Len(ps) = 0 THEN <<>>
  ELSE LET m == CHOOSE j \in 1..Len(ps) :
                  \A l \in 1..Len(ps) : TextToNat(ps[j].k) <= TextToNat(ps[l].k)
       IN  <<ps[m]>> \o SortIndexProps(SubSeq(ps, 1, m - 1) \o SubSeq(ps, m + 1, Len(ps)))

\* Object.keys(value) with the value of each key: OrdinaryOwnPropertyKeys lists
\* the array-index keys in ascending numeric order, then the other keys in
\* creation order
ObjectKeys(props) ==
  SortIndexProps(SelectSeq(props, LAMBDA p : IsArrayIndex(p.k)))
    \o SelectSeq(props, LAMBDA p : ~IsArrayIndex(p.k))

RECURSIVE ParseValue(_, _)
RECURSIVE ParseElements(_, _, _)
RECURSIVE ParseMembers(_, _, _)

ParseElements(s, k, acc) ==
  LET r == ParseValue(s, k)
      k2 == SkipWs(s, r.p)
  IN  IF ~r.ok \/ k2 > Len(s) THEN Fail
      ELSE IF s[k2] = "," THEN ParseElements(s, k2 + 1, Append(acc, r.v))
      ELSE IF s[k2] = "]" THEN Ok(Arr(Append(acc, r.v)), k2 + 1)
      ELSE Fail

ParseMembers(s, k, props) ==
  LET k1 == SkipWs(s, k)
  IN  IF k1 > Len(s) \/ s[k1] # DQ THEN Fail
      ELSE LET key == ParseStringBody(s, k1 + 1, <<>>)
               k2 == SkipWs(s, key.p)
           IN  IF ~key.ok \/ k2 > Len(s) \/ s[k2] # ":" THEN Fail
               ELSE LET r == ParseValue(s, k2 + 1)
                        k3 == SkipWs(s, r.p)
                        ps == DefineProp(props, key.v.s, r.v)
                    IN  IF ~r.ok \/ k3 > Len(s) THEN Fail
                        ELSE IF s[k3] = "," THEN ParseMembers(s, k3 + 1, ps)
                        ELSE IF s[k3] = "}" THEN Ok(Obj(ps), k3 + 1)
                        ELSE Fail

ParseValue(s, k0) ==
  LET k == SkipWs(s, k0)
  IN  IF k > Len(s) THEN Fail
      ELSE CASE s[k] = "n" -> ParseLiteral(s, k, <<"n", "u", "l", "l">>, Null)
             [] s[k] = "t" -> ParseLiteral(s, k, <<"t", "r", "u", "e">>, Bool(TRUE))
             [] s[k] = "f" -> ParseLiteral(s, k, <<"f", "a", "l", "s", "e">>, Bool(FALSE))
             [] s[k] = DQ -> ParseStringBody(s, k + 1, <<>>)
             [] s[k] = "-" \/ s[k] \in Digits -> ParseNumber(s, k)
             [] s[k] = "[" ->
                  LET k1 == SkipWs(s, k + 1)
                  IN  IF k1 <= Len(s) /\ s[k1] = "]" THEN Ok(Arr(<<>>), k1 + 1)
                      ELSE ParseElements(s, k + 1, <<>>)
             [] s[k] = "{" ->
                  LET k1 == SkipWs(s, k + 1)
                  IN  IF k1 <= Len(s) /\ s[k1] = "}" THEN Ok(Obj(<<>>), k1 + 1)
                      ELSE ParseMembers(s, k + 1, <<>>)
             [] OTHER -> Fail

\* JSON.parse(s): [ok |-> TRUE, v |-> the value], or ok = FALSE where it throws
JsonParse(s) ==
  LET r == ParseValue(s, 1)
  IN  IF r.ok /\ SkipWs(s, r.p) = Len(s) + 1
      THEN [ok |-> TRUE, v |-> r.v] ELSE [ok |-> FALSE, v |-> Null]

\* String(e) of the SyntaxError JSON.parse throws: one symbol, free of line breaks
SyntaxErrorText == <<"SyntaxError: Unexpected token">>

\* JSON.stringify(str): the quoted literal of a string
RECURSIVE EscapeChars(_)
EscapeChars(s) ==
  IF Len(s) = 0 THEN <<>>
  ELSE (CASE s[1] = DQ -> <<BS, DQ>>
          [] s[1] = BS -> <<BS, BS>>
          [] s[1] = NL -> <<BS, "n">>
          [] s[1] = TAB -> <<BS, "t">>
          [] s[1] = CR -> <<BS, "r">>
          [] OTHER -> <<s[1]>>) \o EscapeChars(Tail(s))

JsonStringifyString(s) == <<DQ>> \o EscapeChars(s) \o <<DQ>>

-----------------------------------------------------------------------------
(* The emitter: escapeString, needsQuotes, formatString,                   *)
(* formatMultilineYaml and valueToYaml, in both copies of the repository.  *)

Impls == {"converter", "extension"}

\* escapeString: JSON.stringify(str).slice(1, -1)
escapeString(str) ==
  LET q == JsonStringifyString(str) IN SubSeq(q, 2, Len(q) - 1)

\* the first regular expression of needsQuotes: white space or one of
\* - : { } [ ] , & * # ? | < > = ! % @ and the grave accent
SpecialFirst ==
  WhiteSpace \cup {"-", ":", "{", "}", "[", "]", ",", "&", "*", "#", "?", "|",
                   "<", ">", "=", "!", "%", "@", GRAVE}

\* the lower-case form of the letters the reserved words are written with
Lower(c) ==
  CASE c = "T" -> "t" [] c = "R" -> "r" [] c = "U" -> "u" [] c = "E" -> "e"
    [] c = "F" -> "f" [] c = "A" -> "a" [] c = "L" -> "l" [] c = "S" -> "s"
    [] c = "N" -> "n" [] c = "Y" -> "y" [] c = "O" -> "o" [] OTHER -> c

ReservedWords ==
  { <<"t", "r", "u", "e">>, <<"f", "a", "l", "s", "e">>, <<"n", "u", "l", "l">>,
    <<"y", "e", "s">>, <<"n", "o">>, <<"o", "n">>, <<"o", "f", "f">> }

needsQuotes(str) ==
  \/ (Len(str) > 0 /\ str[1] \in SpecialFirst)
  \/ (Len(str) > 0 /\ (str[1] \in Digits \/ str[1] = "-"))
  \/ [j \in 1..Len(str) |-> Lower(str[j])] \in ReservedWords
  \/ (Len(str) > 0 /\ \A j \in 1..Len(str) : str[j] \in Digits \cup {"."})

\* yamlConverter.ts: while (last line is '' && !endsWithNewline) lines.pop()
RECURSIVE PopWhileEmpty(_, _)
PopWhileEmpty(ls, endsWithNewline) ==
  IF Len(ls) > 0 /\ ls[Len(ls)] = <<>> /\ ~endsWithNewline
  THEN PopWhileEmpty(SubSeq(ls, 1, Len(ls) - 1), endsWithNewline) ELSE ls

\* extension.ts: if (last line is '') lines.pop()
PopOneEmpty(ls) ==
  IF Len(ls) > 0 /\ ls[Len(ls)] = <<>> THEN SubSeq(ls, 1, Len(ls) - 1) ELSE ls

chompingIndicator(v) ==
  IF EndsWith(v, <<NL>>)
  THEN IF EndsWith(v, <<NL, NL>>) THEN <<"+">> ELSE <<>>
  ELSE <<"-">>

IsBlockStyle(v) == Includes(v, <<NL>>) \/ Includes(v, <<":", SP>>)

\* formatString of src/yamlConverter.ts
formatStringConverter(v) ==
  IF IsBlockStyle(v)
  THEN <<"|", NL>> \o Join(PopWhileEmpty(Split(v), EndsWith(v, <<NL>>)), <<NL>>)
  ELSE IF needsQuotes(v) \/ escapeString(v) # v
       THEN <<DQ>> \o escapeString(v) \o <<DQ>>
       ELSE v

\* formatString of src/extension.ts
formatStringExtension(v) ==
  IF IsBlockStyle(v)
  THEN <<"|">> \o chompingIndicator(v) \o <<NL>> \o Join(PopOneEmpty(Split(v)), <<NL>>)
  ELSE IF v = <<>> \/ needsQuotes(v) \/ escapeString(v) # v
       THEN <<DQ>> \o escapeString(v) \o <<DQ>>
       ELSE v

formatString(im, v) ==
  IF im = "converter" THEN formatStringConverter(v) ELSE formatStringExtension(v)

\* lines[0] === '|' (yamlConverter.ts); lines[0].match(/^\|[+\-]?$/) (extension.ts)
IsBlockMarker(im, line) ==
  IF im = "converter" THEN line = <<"|">>
  ELSE line \in {<<"|">>, <<"|", "+">>, <<"|", "-">>}

\* a formatMultilineYaml that leaves the content of a block literal at the
\* indent of its prefix line
formatMultilineYamlFlat(im, yamlValue, prefix, indentStr) ==
  LET ls == Split(yamlValue)
  IN  IF IsBlockMarker(im, ls[1])
      THEN <<indentStr \o prefix \o ls[1]>>
             \o [j \in 1..(Len(ls) - 1) |-> indentStr \o ls[j + 1]]
      ELSE <<indentStr \o prefix>> \o ls

\* formatMultilineYaml: the lines of a nested value attached to its prefix
formatMultilineYaml(im, yamlValue, prefix, indentStr) ==
  LET ls == Split(yamlValue)
  IN  IF IsBlockMarker(im, ls[1])
      THEN <<indentStr \o prefix \o ls[1]>>
             \o [j \in 1..(Len(ls) - 1) |-> indentStr \o <<SP, SP>> \o ls[j + 1]]
      ELSE <<indentStr \o prefix>> \o ls

\* an attachment that always puts the prefix on a line of its own
AttachLinesDetached(im, childYaml, prefix, indentStr) ==
  formatMultilineYaml(im, childYaml, prefix, indentStr)

\* the lines one array item or one object entry contributes
AttachLines(im, childYaml, prefix, indentStr) ==
  IF Includes(childYaml, <<NL>>) \/ StartsWith(childYaml, <<SP>>)
  THEN formatMultilineYaml(im, childYaml, prefix, indentStr)
  ELSE <<indentStr \o prefix \o childYaml>>

\* a key quoted by the rule of string values: also when it is empty or
\* escaping changes it
keyStrAsValue(key) ==
  IF key = <<>> \/ needsQuotes(key) \/ escapeString(key) # key
  THEN <<DQ>> \o escapeString(key) \o <<DQ>> ELSE key

\* const keyStr = needsQuotes(key) ? `"${escapeString(key)}"` : key
keyStr(key) ==
  IF needsQuotes(key) THEN <<DQ>> \o escapeString(key) \o <<DQ>> ELSE key

RECURSIVE valueToYaml(_, _, _)
RECURSIVE arrayItems(_, _, _)
RECURSIVE objectItems(_, _, _)

\* a valueToYaml that never re-parses a string
valueToYamlNoUnwrap(im, v, ind) ==
  CASE v.t = "null" -> <<"n", "u", "l", "l">>
    [] v.t = "bool" -> IF v.b THEN <<"t", "r", "u", "e">> ELSE <<"f", "a", "l", "s", "e">>
    [] v.t = "num" -> v.n
    [] v.t = "str" -> formatString(im, v.s)
    [] v.t = "arr" ->
         IF Len(v.a) = 0 THEN <<"[", "]">> ELSE Join(arrayItems(im, v.a, ind), <<NL>>)
    [] v.t = "obj" ->
         IF Len(ObjectKeys(v.o)) = 0 THEN <<"{", "}">>
         ELSE Join(objectItems(im, ObjectKeys(v.o), ind), <<NL>>)

\* the loop over the elements of an array: for (const item of value)
arrayItems(im, a, ind) ==
  IF Len(a) = 0 THEN <<>>
  ELSE AttachLines(im, valueToYaml(im, a[1], ind + 2), <<"-", SP>>, Spaces(ind))
         \o arrayItems(im, Tail(a), ind)

\* the loop over Object.keys(value): for (const key of keys)
objectItems(im, o, ind) ==
  IF Len(o) = 0 THEN <<>>
  ELSE AttachLines(im, valueToYaml(im, o[1].v, ind + 2),
                   keyStr(o[1].k) \o <<":", SP>>, Spaces(ind))
         \o objectItems(im, Tail(o), ind)

valueToYaml(im, v, ind) ==
  CASE v.t = "null" -> <<"n", "u", "l", "l">>
    [] v.t = "bool" -> IF v.b THEN <<"t", "r", "u", "e">> ELSE <<"f", "a", "l", "s", "e">>
    [] v.t = "num" -> v.n
    [] v.t = "str" ->
         LET parsed == JsonParse(v.s)
         IN  IF parsed.ok /\ parsed.v.t # "str"
             THEN valueToYaml(im, parsed.v, ind)
             ELSE formatString(im, v.s)
    [] v.t = "arr" ->
         IF Len(v.a) = 0 THEN <<"[", "]">> ELSE Join(arrayItems(im, v.a, ind), <<NL>>)
    [] v.t = "obj" ->
         IF Len(ObjectKeys(v.o)) = 0 THEN <<"{", "}">>
         ELSE Join(objectItems(im, ObjectKeys(v.o), ind), <<NL>>)

\* a re-parse that recurses on the string itself instead of the parsed value
recursiveCallsSameArgument(v) ==
  CASE v.t = "str" ->
         LET parsed == JsonParse(v.s)
         IN  IF parsed.ok /\ parsed.v.t # "str" THEN {v} ELSE {}
    [] v.t = "arr" -> {v.a[j] : j \in 1..Len(v.a)}
    [] v.t = "obj" -> {v.o[j].v : j \in 1..Len(v.o)}
    [] OTHER -> {}

\* the arguments of the recursive calls valueToYaml(v, _) makes
recursiveCalls(v) ==
  CASE v.t = "str" ->
         LET parsed == JsonParse(v.s)
         IN  IF parsed.ok /\ parsed.v.t # "str" THEN {parsed.v} ELSE {}
    [] v.t = "arr" -> {v.a[j] : j \in 1..Len(v.a)}
    [] v.t = "obj" -> {v.o[j].v : j \in 1..Len(v.o)}
    [] OTHER -> {}

ParseErrorPrefix == <<"Failed to parse JSON: ">>

\* a jsonToYaml whose Error drops the message of the parser
jsonToYamlBareError(im, jsonString) ==
  LET parsed == JsonParse(jsonString)
  IN  IF parsed.ok
      THEN [ok |-> TRUE, yaml |-> valueToYaml(im, parsed.v, 0), message |-> <<>>]
      ELSE [ok |-> FALSE, yaml |-> <<>>, message |-> ParseErrorPrefix]

\* jsonToYaml: [ok |-> TRUE, yaml |-> text], or ok = FALSE with the message of
\* the Error it throws

jsonToYaml(im, jsonString) ==
  LET parsed == JsonParse(jsonString)
  IN  IF parsed.ok
      THEN [ok |-> TRUE, yaml |-> valueToYaml(im, parsed.v, 0), message |-> <<>>]
      ELSE [ok |-> FALSE, yaml |-> <<>>, message |-> ParseErrorPrefix \o SyntaxErrorText]

\* JSON.stringify(value), the writer of the minify command
RECURSIVE JsonStringify(_)
RECURSIVE StringifyElements(_)
RECURSIVE StringifyMembers(_)

StringifyElements(a) ==
  IF Len(a) = 0 THEN <<>>
  ELSE JsonStringify(a[1]) \o (IF Len(a) > 1 THEN <<",">> ELSE <<>>)
         \o StringifyElements(Tail(a))

StringifyMembers(o) ==
  IF Len(o) = 0 THEN <<>>
  ELSE JsonStringifyString(o[1].k) \o <<":">> \o JsonStringify(o[1].v)
         \o (IF Len(o) > 1 THEN <<",">> ELSE <<>>) \o StringifyMembers(Tail(o))

JsonStringify(v) ==
  CASE v.t = "null" -> <<"n", "u", "l", "l">>
    [] v.t = "bool" -> IF v.b THEN <<"t", "r", "u", "e">> ELSE <<"f", "a", "l", "s", "e">>
    [] v.t = "num" -> v.n
    [] v.t = "str" -> JsonStringifyString(v.s)
    [] v.t = "arr" -> <<"[">> \o StringifyElements(v.a) \o <<"]">>
    [] v.t = "obj" -> <<"{">> \o StringifyMembers(ObjectKeys(v.o)) \o <<"}">>

-----------------------------------------------------------------------------
(* The inputs of the commands                                              *)

\* the longest JSONL input, in lines
MaxLines == 3

SeqsUpTo(S, n) == UNION {[1..k -> S] : k \in 0..n}

GoodRecord == <<"{", DQ, "a", DQ, ":", "1", "}">>                 \* {"a":1}
PaddedRecord == <<SP, "[", DQ, "b", DQ, "]", CR>>                 \* ["b"] in a CRLF file
TextRecord == <<DQ, "a", BS, "n", "b", DQ>>                       \* "a\nb"
CutRecord == <<"{", DQ, "a", DQ, ":">>                            \* {"a":
BareWord == <<"x">>
BlankLine == <<>>
SpaceLine == <<SP, TAB>>

\* the lines a JSONL input is made of; none holds a line break
LinePool ==
  {GoodRecord, PaddedRecord, TextRecord, CutRecord, BareWord, BlankLine, SpaceLine}

\* the JSONL input of the README example: two records on two lines
ReadmeJsonl ==
  << "{", DQ, "n", "a", "m", "e", DQ, ":", SP, DQ, "J", "o", "h", "n", DQ,
     ",", SP, DQ, "a", "g", "e", DQ, ":", SP, "3", "0", ",", SP, DQ, "c",
     "i", "t", "y", DQ, ":", SP, DQ, "N", "e", "w", SP, "Y", "o", "r", "k",
     DQ, "}", NL, "{", DQ, "n", "a", "m", "e", DQ, ":", SP, DQ, "J", "a",
     "n", "e", DQ, ",", SP, DQ, "a", "g", "e", DQ, ":", SP, "2", "5", ",",
     SP, DQ, "c", "i", "t", "y", DQ, ":", SP, DQ, "S", "a", "n", SP, "F",
     "r", "a", "n", "c", "i", "s", "c", "o", DQ, "}" >>

JsonlTexts ==
  {Join(ls, <<NL>>) : ls \in SeqsUpTo(LinePool, MaxLines) \ {<<>>}} \cup {ReadmeJsonl}

\* the documents of the single-document command: values written by
\* JSON.stringify, bare or padded with white space, and malformed texts
DocValues ==
  { Null, Bool(TRUE), Bool(FALSE), Num(<<"0">>), Num(<<"-", "1", "2">>),
    Num(<<"1", ".", "5">>), Str(<<>>), Str(<<"a">>), Str(<<"a", NL>>),
    Str(<<"a", ":", SP, "b">>), Str(<<"1">>), Str(<<"[", "1", "]">>),
    Str(<<DQ, "a", DQ>>), Arr(<<>>), Obj(<<>>),
    Arr(<<Num(<<"1">>), Str(<<"a">>)>>), Arr(<<Arr(<<Null>>), Obj(<<>>)>>),
    Obj(<<Prop(<<"a">>, Num(<<"1">>))>>),
    Obj(<<Prop(<<"b">>, Str(<<"x">>)), Prop(<<"1">>, Arr(<<Bool(TRUE)>>))>>),
    Obj(<<Prop(<<"k">>, Obj(<<Prop(<<"a", SP, "b">>, Str(<<"c", NL, NL>>))>>))>>) }

StringifiedDocs == {JsonStringify(v) : v \in DocValues}

MalformedDocs ==
  { CutRecord, BareWord, <<"[", "1", ",", "]">>, <<"0", "1">>, <<"-">>,
    <<DQ, "a">>, <<"{", "a", ":", "1", "}">>, <<"t", "r", "u">>,
    <<"1", SP, "2">>, <<"{", DQ, "a", DQ, ":", "1", ",", "}">>,
    <<DQ, "a", NL, DQ>>, <<"[", "1", "]", "]">> }

DocTexts ==
  StringifiedDocs \cup {<<SP>> \o t \o <<NL>> : t \in StringifiedDocs}
    \cup MalformedDocs \cup {BlankLine, SpaceLine}

-----------------------------------------------------------------------------
(* convertJsonlToYaml and the jsonYamlBridge.jsonToYaml command            *)

RECURSIVE NatToText(_)
NatToText(n) ==
  IF n < 10 THEN <<CHOOSE d \in Digits : DigitVal(d) = n>>
  ELSE NatToText(n \div 10) \o NatToText(n % 10)

\* String(error) of the Error that jsonToYaml throws
ErrorText(msg) == <<"Error: ">> \o msg

\* `# Error converting line ${i + 1}: ${error}`
errorComment(idx, msg) ==
  <<"# Error converting line ">> \o NatToText(idx + 1) \o <<":", SP>> \o ErrorText(msg)

\* `# Original content: ${line}`
originalComment(line) == <<"# Original content: ">> \o line

\* a catch block that loses the blocks collected before the malformed line
catchPushAborting(yl, idx, line, msg) ==
  <<errorComment(idx, msg), originalComment(line)>>

\* the catch block: what yamlLines holds after the two pushes
catchPush(yl, idx, line, msg) ==
  yl \o <<errorComment(idx, msg), originalComment(line)>>

\* const line = lines[i].trim()
currentLine(ls, idx) == Trim(ls[idx + 1])

\* yamlLines.join('\n\n')
joinBlocks(yl) == Join(yl, <<NL, NL>>)

Idle ==
  /\ lines = <<>> /\ i = 0 /\ yamlLines = <<>> /\ output = <<>> /\ message = <<>>
  /\ value = Null /\ indent = 0 /\ yaml = <<>> /\ cur = Null /\ depth = 0

Init ==
  /\ impl \in Impls
  /\ mode \in {"jsonl", "json"}
  /\ text \in (IF mode = "jsonl" THEN JsonlTexts ELSE DocTexts)
  /\ pc = "start"
  /\ Idle

\* const lines = jsonlText.split('\n'); const yamlLines = []
SplitLines ==
  /\ mode = "jsonl" /\ pc = "start"
  /\ lines' = Split(text)
  /\ yamlLines' = <<>>
  /\ i' = 0
  /\ pc' = "loop"
  /\ UNCHANGED <<impl, mode, text, output, message, value, indent, yaml, cur, depth>>

\* if (line === '') continue
SkipBlankLine ==
  /\ mode = "jsonl" /\ pc = "loop" /\ i < Len(lines)
  /\ currentLine(lines, i) = <<>>
  /\ i' = i + 1
  /\ UNCHANGED <<impl, mode, text, pc, lines, yamlLines, output, message,
                 value, indent, yaml, cur, depth>>

\* try { yamlLines.push(jsonToYaml(line)) }
ConvertLine ==
  /\ mode = "jsonl" /\ pc = "loop" /\ i < Len(lines)
  /\ currentLine(lines, i) # <<>>
  /\ LET r == jsonToYaml(impl, currentLine(lines, i))
     IN  /\ r.ok
         /\ yamlLines' = Append(yamlLines, r.yaml)
  /\ i' = i + 1
  /\ UNCHANGED <<impl, mode, text, pc, lines, output, message, value, indent, yaml, cur, depth>>

\* catch (error) { two pushes }
CatchLine ==
  /\ mode = "jsonl" /\ pc = "loop" /\ i < Len(lines)
  /\ currentLine(lines, i) # <<>>
  /\ LET r == jsonToYaml(impl, currentLine(lines, i))
     IN  /\ ~r.ok
         /\ yamlLines' = catchPush(yamlLines, i, currentLine(lines, i), r.message)
  /\ i' = i + 1
  /\ UNCHANGED <<impl, mode, text, pc, lines, output, message, value, indent, yaml, cur, depth>>

\* return yamlLines.join('\n\n')
ReturnJoined ==
  /\ mode = "jsonl" /\ pc = "loop" /\ i = Len(lines)
  /\ output' = joinBlocks(yamlLines)
  /\ pc' = "done"
  /\ UNCHANGED <<impl, mode, text, lines, i, yamlLines, message, value, indent, yaml, cur, depth>>

\* if (!trimmedText) { showWarningMessage('No content to convert.'); return }
JsonNoContent ==
  /\ mode = "json" /\ pc = "start"
  /\ Trim(text) = <<>>
  /\ pc' = "warned"
  /\ UNCHANGED <<impl, mode, text, lines, i, yamlLines, output, message,
                 value, indent, yaml, cur, depth>>

\* const yamlContent = jsonToYaml(trimmedText)
JsonConverted ==
  /\ mode = "json" /\ pc = "start"
  /\ Trim(text) # <<>>
  /\ LET r == jsonToYaml(impl, Trim(text))
     IN  /\ r.ok
         /\ output' = r.yaml
  /\ pc' = "done"
  /\ UNCHANGED <<impl, mode, text, lines, i, yamlLines, message, value, indent, yaml, cur, depth>>

\* catch (error) { showErrorMessage(`Failed to convert JSON to YAML: ${error}`) }
JsonFailed ==
  /\ mode = "json" /\ pc = "start"
  /\ Trim(text) # <<>>
  /\ LET r == jsonToYaml(impl, Trim(text))
     IN  /\ ~r.ok
         /\ message' = <<"Failed to convert JSON to YAML: ">> \o ErrorText(r.message)
  /\ pc' = "failed"
  /\ UNCHANGED <<impl, mode, text, lines, i, yamlLines, output, value, indent, yaml, cur, depth>>

Next ==
  \/ SplitLines
  \/ SkipBlankLine
  \/ ConvertLine
  \/ CatchLine
  \/ ReturnJoined
  \/ JsonNoContent
  \/ JsonConverted
  \/ JsonFailed

Spec == Init /\ [][Next]_vars

-----------------------------------------------------------------------------
(* The values valueToYaml is called on                                     *)

\* the longest string drawn character by character
MaxStrLen == 3
\* the most elements of an array and properties of an object
MaxWidth == 2
\* the deepest indent a call starts at
MaxIndent == 2

StrAlphabet == {"a", "1", "-", ".", SP, ":", NL, DQ}

EnumStrings == SeqsUpTo(StrAlphabet, MaxStrLen)

\* longer strings: reserved words, encoded JSON, block texts
PoolStrings ==
  { <<"t", "r", "u", "e">>, <<"T", "r", "u", "e">>, <<"n", "u", "l", "l">>,
    <<"N", "o">>, <<"t", "r", "u", "e", "r">>,
    <<"[", "1", "]">>, <<"{", DQ, "a", DQ, ":", "1", "}">>,
    <<"[", DQ, "[", "1", "]", DQ, "]">>, <<"[", "]">>,
    <<"k", "e", "y", ":", SP, "v">>, <<"a", NL, "b", NL>>, <<"a", NL, NL, NL>>,
    <<"a", NL, NL, "b">>, <<SP, "a", ":", SP, "b">>, <<"a", BS, "b">>,
    <<"N", "e", "w", SP, "Y", "o", "r", "k">> }

Scalars ==
  {Null, Bool(TRUE), Bool(FALSE), Num(<<"0">>), Num(<<"-", "1", "2">>), Num(<<"1", ".", "5">>)}

ElemPool ==
  {Null, Num(<<"1">>), Str(<<"a">>), Str(<<"x", NL, NL>>), Arr(<<>>)}

KeyPool == {<<"a">>, <<"b">>, <<"1">>, <<"2">>}

NestPool ==
  { Num(<<"1">>), Arr(<<Num(<<"1">>), Str(<<"a">>)>>),
    Obj(<<Prop(<<"b">>, Str(<<"c", ":", SP, "d">>)), Prop(<<"1">>, Obj(<<>>))>>),
    Str(<<"[", DQ, "[", "1", "]", DQ, "]">>) }

Injective(f) == \A x, y \in DOMAIN f : x # y => f[x] # f[y]

NonEmptySeqs(S, n) == SeqsUpTo(S, n) \ {<<>>}

ArraysOver(pool) == {Arr(a) : a \in NonEmptySeqs(pool, MaxWidth)}

ObjectsOver(keys, pool) ==
  UNION { {Obj([j \in 1..Len(ks) |-> Prop(ks[j], vs[j])]) : vs \in [1..Len(ks) -> pool]}
          : ks \in {k \in NonEmptySeqs(keys, MaxWidth) : Injective(k)} }

\* the longest key drawn character by character
MaxKeyLen == 2

KeyStrings == SeqsUpTo(StrAlphabet, MaxKeyLen)

\* longer keys: reserved words, a line break, a double quote, ': ' inside
TrickyKeys ==
  { <<>>, <<"t", "r", "u", "e">>, <<"N", "o">>, <<"a", NL, "b">>,
    <<"a", DQ, "b">>, <<"a", ":", SP, "b">>, <<"a", SP, "b">> }

\* objects whose values are null, booleans or numbers, under every kind of key
KeyedObjects ==
  {Obj(<<Prop(k, v)>>) : k \in KeyStrings, v \in {Null, Num(<<"1">>)}}
    \cup ObjectsOver(TrickyKeys, {Bool(TRUE), Num(<<"-", "1", "2">>)})

Containers ==
  ArraysOver(ElemPool) \cup ObjectsOver(KeyPool, ElemPool)
    \cup ArraysOver(NestPool) \cup ObjectsOver({<<"k">>, <<"1">>}, NestPool)
    \cup KeyedObjects

EmitValues ==
  {Str(s) : s \in EnumStrings \cup PoolStrings} \cup Scalars
    \cup {Arr(<<>>), Obj(<<>>)} \cup Containers

Indents == {n \in 0..MaxIndent : n % 2 = 0}

InitEmit ==
  /\ impl \in Impls
  /\ mode = "emit"
  /\ text = <<>> /\ lines = <<>> /\ i = 0 /\ yamlLines = <<>>
  /\ output = <<>> /\ message = <<>>
  /\ value \in EmitValues
  /\ indent \in Indents
  /\ yaml = <<>>
  /\ cur = Null
  /\ depth = 0
  /\ pc = "call"

\* one call valueToYaml(value, indent), from its entry to its return
Emit ==
  /\ mode = "emit" /\ pc = "call"
  /\ yaml' = valueToYaml(impl, value, indent)
  /\ pc' = "return"
  /\ UNCHANGED <<impl, mode, text, lines, i, yamlLines, output, message, value, indent, cur, depth>>

NextEmit == Emit

SpecEmit == InitEmit /\ [][NextEmit]_vars

\* The recursion of valueToYaml, one call at a time: cur is the argument of
\* the innermost call, value the argument of the outermost.
InitWalk ==
  /\ impl \in Impls
  /\ mode = "walk"
  /\ text = <<>> /\ lines = <<>> /\ i = 0 /\ yamlLines = <<>>
  /\ output = <<>> /\ message = <<>>
  /\ value = Null
  /\ indent = 0
  /\ yaml = <<>>
  /\ cur = Null
  /\ depth = 0
  /\ pc = "idle"

\* jsonToYaml calls valueToYaml(jsonObject, 0)
Call ==
  /\ mode = "walk" /\ pc = "idle"
  /\ value' \in EmitValues
  /\ cur' = value'
  /\ depth' = 0
  /\ pc' = "call"
  /\ UNCHANGED <<impl, mode, text, lines, i, yamlLines, output, message, indent, yaml>>

\* the call on cur makes a recursive call
Descend ==
  /\ mode = "walk" /\ pc = "call"
  /\ \E c \in recursiveCalls(cur) : cur' = c
  /\ depth' = depth + 1
  /\ UNCHANGED <<impl, mode, text, pc, lines, i, yamlLines, output, message,
                 value, indent, yaml>>

\* the call on cur makes no recursive call and returns
Leaf ==
  /\ mode = "walk" /\ pc = "call"
  /\ recursiveCalls(cur) = {}
  /\ pc' = "return"
  /\ UNCHANGED <<impl, mode, text, lines, i, yamlLines, output, message,
                 value, indent, yaml, cur, depth>>

NextWalk == Call \/ Descend \/ Leaf

SpecWalk == InitWalk /\ [][NextWalk]_vars

-----------------------------------------------------------------------------
(* yaml.load, the loader the reverse command hands YAML text to, over the  *)
(* texts the emitter writes: block sequences and block mappings, plain and *)
(* double-quoted scalars, [] and {}, and block literals with their         *)
(* chomping.  A text that does not end with a line break is read as if it  *)
(* did (js-yaml appends one).                                              *)

Invalid == [t |-> "invalid"]

BlockMarkers == {<<"|">>, <<"|", "+">>, <<"|", "-">>}

StripIndent(l, n) == IF Len(l) <= n THEN <<>> ELSE SubSeq(l, n + 1, Len(l))

\* a line that starts an entry of the collection indented by ind
IsEntryStart(l, ind) == Len(l) > ind /\ StartsWith(l, Spaces(ind)) /\ l[ind + 1] # SP

RECURSIVE ContinuationCount(_, _)
ContinuationCount(ls, ind) ==
  IF Len(ls) = 0 \/ IsEntryStart(ls[1], ind) THEN 0
  ELSE 1 + ContinuationCount(Tail(ls), ind)

\* the lines of each entry: its first line and the deeper lines that follow it
RECURSIVE GroupEntries(_, _)
GroupEntries(ls, ind) ==
  IF Len(ls) = 0 THEN <<>>
  ELSE LET n == ContinuationCount(Tail(ls), ind)
       IN  <<SubSeq(ls, 1, 1 + n)>> \o GroupEntries(SubSeq(ls, n + 2, Len(ls)), ind)

RECURSIVE NewLines(_)
NewLines(n) == IF n <= 0 THEN <<>> ELSE <<NL>> \o NewLines(n - 1)

\* a block literal: the content lines without their indentation, the line break
\* after the last content line and the trailing blank lines kept as the
\* chomping indicator says
DecodeBlock(mark, content, cind) ==
  LET body == [j \in 1..Len(content) |-> StripIndent(content[j], cind)]
      filled == {j \in 1..Len(body) : body[j] # <<>>}
      last == IF filled = {} THEN 0 ELSE CHOOSE j \in filled : \A k \in filled : k <= j
      core == Join(SubSeq(body, 1, last), <<NL>>)
      trailing == Len(body) - last
  IN  IF mark = <<"|", "-">> THEN Str(core)
      ELSE IF mark = <<"|">> THEN Str(IF last = 0 THEN <<>> ELSE core \o <<NL>>)
      ELSE Str(IF last = 0 THEN NewLines(trailing) ELSE core \o <<NL>> \o NewLines(trailing))

\* a scalar written on one line
DecodeScalar(s) ==
  IF s = <<>> \/ s = <<"n", "u", "l", "l">> THEN Null
  ELSE IF s = <<"t", "r", "u", "e">> THEN Bool(TRUE)
  ELSE IF s = <<"f", "a", "l", "s", "e">> THEN Bool(FALSE)
  ELSE IF s = <<"[", "]">> THEN Arr(<<>>)
  ELSE IF s = <<"{", "}">> THEN Obj(<<>>)
  ELSE IF s[1] = DQ THEN
         LET r == ParseStringBody(s, 2, <<>>)
         IN  IF r.ok /\ r.p = Len(s) + 1 THEN r.v ELSE Invalid
  ELSE IF s[1] = "-" \/ s[1] \in Digits THEN
         LET r == ParseNumber(s, 1)
         IN  IF r.ok /\ r.p = Len(s) + 1 THEN r.v ELSE Str(TrimRight(s))
  ELSE Str(TrimRight(s))

\* the key of a mapping entry and the text after its ': '
KeySplit(l) ==
  IF Len(l) > 0 /\ l[1] = DQ
  THEN LET r == ParseStringBody(l, 2, <<>>)
       IN  IF r.ok /\ r.p + 1 <= Len(l) /\ l[r.p] = ":" /\ l[r.p + 1] = SP
           THEN [ok |-> TRUE, key |-> r.v.s, rest |-> SubSeq(l, r.p + 2, Len(l))]
           ELSE [ok |-> FALSE, key |-> <<>>, rest |-> <<>>]
  ELSE IF Includes(l, <<":", SP>>)
       THEN LET k == CHOOSE k \in 1..(Len(l) - 1) :
                       /\ l[k] = ":" /\ l[k + 1] = SP
                       /\ \A j \in 1..(k - 1) : ~(l[j] = ":" /\ l[j + 1] = SP)
            IN  [ok |-> TRUE, key |-> SubSeq(l, 1, k - 1), rest |-> SubSeq(l, k + 2, Len(l))]
       ELSE [ok |-> FALSE, key |-> <<>>, rest |-> <<>>]

RECURSIVE DecodeNode(_, _)
RECURSIVE DecodeAttached(_, _, _)

\* the value after a '- ' or 'key: ' prefix: on its line, or on the lines below
DecodeAttached(rest, more, ind) ==
  IF rest \in BlockMarkers THEN DecodeBlock(rest, more, ind + 2)
  ELSE IF rest = <<>> /\ Len(more) > 0 THEN DecodeNode(more, ind + 2)
  ELSE IF Len(more) = 0 THEN DecodeScalar(rest)
  ELSE Invalid

\* the node whose lines are ls and whose indentation is ind
DecodeNode(ls, ind) ==
  LET first == StripIndent(ls[1], ind)
      entries == GroupEntries(ls, ind)
  IN  IF ~IsEntryStart(ls[1], ind) THEN Invalid
      ELSE IF first \in BlockMarkers THEN DecodeBlock(first, Tail(ls), ind)
      ELSE IF StartsWith(first, <<"-", SP>>) THEN
             Arr([j \in 1..Len(entries) |->
                    DecodeAttached(StripIndent(entries[j][1], ind + 2), Tail(entries[j]), ind)])
      ELSE IF KeySplit(first).ok THEN
             Obj([j \in 1..Len(entries) |->
                    LET e == KeySplit(StripIndent(entries[j][1], ind))
                    IN  Prop(e.key, DecodeAttached(e.rest, Tail(entries[j]), ind))])
      ELSE IF Len(ls) = 1 THEN DecodeScalar(first)
      ELSE Invalid

YamlLoad(y) ==
  LET t == IF EndsWith(y, <<NL>>) THEN y ELSE y \o <<NL>>
      ls == Split(t)
  IN  IF Len(ls) = 1 THEN Null ELSE DecodeNode(SubSeq(ls, 1, Len(ls) - 1), 0)

-----------------------------------------------------------------------------
(* Claims about the Record Driver and the single-document conversion       *)

\* the entries the claim gives lines 1..n of the input: nothing for a blank
\* line, the rendered block for a valid one, a diagnostic for a malformed one
RECURSIVE IsolatedEntries(_, _, _)
IsolatedEntries(im, ls, n) ==
  IF n = 0 THEN <<>>
  ELSE LET t == Trim(ls[n])
       IN  IsolatedEntries(im, ls, n - 1) \o
             (IF t = <<>> THEN <<>>
              ELSE IF JsonParse(t).ok THEN <<jsonToYaml(im, t).yaml>>
              ELSE << <<"# Error converting line ">> \o NatToText(n) \o <<":", SP>>
                        \o ErrorText(jsonToYaml(im, t).message),
                      <<"# Original content: ">> \o t >>)

HasMalformedLine(ls) ==
  \E n \in 1..Len(ls) : Trim(ls[n]) # <<>> /\ ~JsonParse(Trim(ls[n])).ok

\* C1: convertJsonlToYaml never throws and always returns; at every point of
\* the loop the collected entries are, line by line, the block jsonToYaml gives
\* the trimmed line when it is valid JSON and a diagnostic when it is not,
\* whatever the other lines hold; the result is these entries joined.
C1_RecordIsolation ==
  mode = "jsonl" =>
    /\ pc \in {"start", "loop", "done"}
    /\ pc = "loop" => yamlLines = IsolatedEntries(impl, Split(text), i)
    /\ pc = "done" =>
         output = Join(IsolatedEntries(impl, Split(text), Len(Split(text))), <<NL, NL>>)

\* a finished run over a malformed line followed by a valid record
C1_Witness ==
  /\ mode = "jsonl" /\ pc = "done"
  /\ \E m, n \in 1..Len(lines) :
       /\ m < n
       /\ Trim(lines[m]) # <<>> /\ ~JsonParse(Trim(lines[m])).ok
       /\ JsonParse(Trim(lines[n])).ok
       /\ Includes(output, jsonToYaml(impl, Trim(lines[n])).yaml)

\* one block per non-blank line, the diagnostic being the error line
\* immediately followed by the original-content line
RECURSIVE TwoLineBlocks(_, _, _)
TwoLineBlocks(im, ls, n) ==
  IF n = 0 THEN <<>>
  ELSE LET t == Trim(ls[n])
       IN  TwoLineBlocks(im, ls, n - 1) \o
             (IF t = <<>> THEN <<>>
              ELSE IF JsonParse(t).ok THEN <<jsonToYaml(im, t).yaml>>
              ELSE << <<"# Error converting line ">> \o NatToText(n) \o <<":", SP>>
                        \o ErrorText(jsonToYaml(im, t).message) \o <<NL>>
                        \o <<"# Original content: ">> \o t >>)

\* C2: in the output every malformed line n is one two-line block, the
\* '# Error converting line n: ...' line immediately followed by the
\* '# Original content: ...' line, and consecutive blocks are separated by
\* exactly one blank line.
C2_TwoLineDiagnostic ==
  (mode = "jsonl" /\ pc = "done") =>
    output = Join(TwoLineBlocks(impl, lines, Len(lines)), <<NL, NL>>)

NonBlankLines(ls) == SelectSeq(ls, LAMBDA l : Trim(l) # <<>>)

\* C3: the driver emits exactly one block per non-blank line, blank lines
\* contribute nothing, and the k-th block is the block of the k-th non-blank
\* line: its rendering, or the diagnostic that names it.
C3_OneBlockPerLine ==
  (mode = "jsonl" /\ pc = "done") =>
    LET nb == NonBlankLines(lines)
    IN  /\ Len(yamlLines) = Len(nb)
        /\ \A k \in 1..Len(nb) :
             IF JsonParse(Trim(nb[k])).ok
             THEN yamlLines[k] = jsonToYaml(impl, Trim(nb[k])).yaml
             ELSE StartsWith(yamlLines[k], <<"# Error converting line ">>)

\* C4: jsonToYaml fails exactly when its text is not valid JSON (here: is not
\* a text JSON.stringify writes), the error then carries the message of the
\* parser, and every valid text gives the rendering of its value.
C4_FailsOnlyOnInvalidJson ==
  (mode = "json" /\ pc \in {"done", "failed"}) =>
    /\ pc = "failed" <=> Trim(text) \notin StringifiedDocs
    /\ pc = "failed" =>
         message = <<"Failed to convert JSON to YAML: ", "Error: ", "Failed to parse JSON: ">>
                     \o SyntaxErrorText
    /\ pc = "done" =>
         \E v \in DocValues :
           /\ Trim(text) = JsonStringify(v)
           /\ output = valueToYaml(impl, v, 0)

\* a malformed document has been refused and a nested document rendered
C4_Witness ==
  /\ mode = "json" /\ pc = "failed"
  /\ text = <<"[", "1", ",", "]">>
  /\ jsonToYaml(impl, JsonStringify(Arr(<<Arr(<<Null>>), Obj(<<>>)>>))).ok

-----------------------------------------------------------------------------
(* Claims about the Value Emitter and the String Formatter                 *)

\* the lines of a rendering that introduce the entries of the container itself:
\* exactly ind spaces, then a character that is no space
EntryLines(y, ind) ==
  SelectSeq(Split(y), LAMBDA l : Len(l) > ind /\ StartsWith(l, Spaces(ind)) /\ l[ind + 1] # SP)

\* C5: the entries of a rendered object are in the insertion order of its keys,
\* keys that look like integers included, and the items of a rendered array
\* are in element order.
C5_InsertionOrder ==
  (mode = "emit" /\ pc = "return") =>
    /\ (value.t = "obj" /\ Len(value.o) > 0) =>
         LET es == EntryLines(yaml, indent)
         IN  /\ Len(es) = Len(value.o)
             /\ \A k \in 1..Len(es) :
                  StartsWith(es[k], Spaces(indent) \o keyStr(value.o[k].k) \o <<":">>)
    /\ (value.t = "arr" /\ Len(value.a) > 0) =>
         yaml = Join(arrayItems(impl, value.a, indent), <<NL>>)

\* C6: a string that parses as JSON to a value that is no string renders as
\* that value at the same indent ("1" as the number 1, "true" as the boolean);
\* every other string renders as formatString gives it.
C6_StringUnwrap ==
  (mode = "emit" /\ pc = "return" /\ value.t = "str") =>
    LET parsed == JsonParse(value.s)
    IN  /\ IF parsed.ok /\ parsed.v.t # "str"
           THEN yaml = valueToYaml(impl, parsed.v, indent)
           ELSE yaml = formatString(impl, value.s)
        /\ value.s = <<"1">> => yaml = <<"1">>
        /\ value.s = <<"t", "r", "u", "e">> => yaml = <<"t", "r", "u", "e">>
        /\ value.s = <<"[", "1", "]">> => yaml = Spaces(indent) \o <<"-", SP, "1">>

\* an encoded array has been rendered as a sequence at indent 2
C6_Witness ==
  /\ mode = "emit" /\ pc = "return" /\ indent = 2
  /\ value = Str(<<"[", "1", "]">>)
  /\ yaml = <<SP, SP, "-", SP, "1">>

\* the size of a value: every recursive call of valueToYaml is on a smaller one
RECURSIVE Size(_)
RECURSIVE SizeSum(_)
SizeSum(vs) == IF Len(vs) = 0 THEN 0 ELSE Size(vs[1]) + SizeSum(Tail(vs))

Size(v) ==
  CASE v.t = "str" -> Len(v.s) + 1
    [] v.t = "arr" -> 1 + SizeSum(v.a)
    [] v.t = "obj" -> 1 + SizeSum([j \in 1..Len(v.o) |-> v.o[j].v])
    [] OTHER -> 1

\* C7: valueToYaml terminates: every recursive call, the one on the value a
\* string encodes included, is on a strictly smaller value, so a chain of
\* pending calls is never longer than the size of the outermost argument.
C7_Terminates ==
  (mode = "walk" /\ pc \in {"call", "return"}) =>
    /\ \A c \in recursiveCalls(cur) : Size(c) < Size(cur)
    /\ depth + Size(cur) <= Size(value)

\* the string ["[1]"] has been unwrapped twice, down to the number 1
C7_Witness ==
  /\ mode = "walk" /\ pc = "return"
  /\ value = Str(<<"[", DQ, "[", "1", "]", DQ, "]">>)
  /\ cur = Num(<<"1">>)

\* a string that valueToYaml hands to formatString
IsFormatted(s) == LET parsed == JsonParse(s) IN ~parsed.ok \/ parsed.v.t = "str"

\* C8: a string that is not unwrapped is a block literal exactly when it holds a
\* line break or ': '; otherwise it is double-quoted with the escaped body
\* exactly when it is empty, needsQuotes flags it or escaping changes it, and
\* verbatim otherwise (the empty string is "", New York is New York).
C8_StyleSelection ==
  (mode = "emit" /\ pc = "return" /\ value.t = "str" /\ IsFormatted(value.s)) =>
    LET s == value.s
        block == Includes(s, <<NL>>) \/ Includes(s, <<":", SP>>)
        quoted == s = <<>> \/ needsQuotes(s) \/ escapeString(s) # s
    IN  /\ block <=> (Len(yaml) > 0 /\ yaml[1] = "|")
        /\ (~block /\ quoted) => yaml = <<DQ>> \o escapeString(s) \o <<DQ>>
        /\ (~block /\ ~quoted) => yaml = s

\* C9: a block literal is headed '|+' when the string ends with two or more
\* line breaks, '|' when it ends with exactly one, '|-' when it ends with none;
\* the lines after the marker are the string split on the line break, one
\* trailing empty element dropped when the string ends with a line break.
C9_Chomping ==
  (mode = "emit" /\ pc = "return" /\ value.t = "str" /\ IsFormatted(value.s)
     /\ (Includes(value.s, <<NL>>) \/ Includes(value.s, <<":", SP>>))) =>
    LET s == value.s
        ls == Split(s)
        marker == IF EndsWith(s, <<NL, NL>>) THEN <<"|", "+">>
                  ELSE IF EndsWith(s, <<NL>>) THEN <<"|">>
                  ELSE <<"|", "-">>
        body == IF EndsWith(s, <<NL>>) THEN SubSeq(ls, 1, Len(ls) - 1) ELSE ls
    IN  Split(yaml) = <<marker>> \o body

\* the strings of the claim: empty, plain, with line breaks, with trailing
\* line breaks, with ': '; none is parseable JSON
RoundTripStrings ==
  { <<>>, <<"a">>, <<"a", SP, "a">>, <<"N", "e", "w", SP, "Y", "o", "r", "k">>,
    <<"a", NL, "a">>, <<"a", NL, NL, "b">>, <<"a", NL>>, <<"a", NL, "b", NL>>,
    <<"a", NL, NL>>, <<"x", NL, NL>>, <<"a", NL, NL, NL>>, <<NL>>,
    <<"c", ":", SP, "d">>, <<"k", "e", "y", ":", SP, "v">> }

\* the keys of the objects of the claim: plain words and integers
RoundTripKeys == KeyPool \cup {<<"k">>}

IsInteger(n) == \A j \in 1..Len(n) : n[j] \in Digits \cup {"-"}

RECURSIVE RoundTrippable(_)
RoundTrippable(v) ==
  CASE v.t = "str" -> v.s \in RoundTripStrings
    [] v.t = "num" -> IsInteger(v.n)
    [] v.t = "arr" -> \A j \in 1..Len(v.a) : RoundTrippable(v.a[j])
    [] v.t = "obj" ->
         \A j \in 1..Len(v.o) : v.o[j].k \in RoundTripKeys /\ RoundTrippable(v.o[j].v)
    [] OTHER -> TRUE

\* structural equality: a value with the properties of every object in the
\* order Object.keys lists them
RECURSIVE Normal(_)
Normal(v) ==
  CASE v.t = "arr" -> Arr([j \in 1..Len(v.a) |-> Normal(v.a[j])])
    [] v.t = "obj" ->
         LET ps == ObjectKeys(v.o)
         IN  Obj([j \in 1..Len(ps) |-> Prop(ps[j].k, Normal(ps[j].v))])
    [] OTHER -> v

\* C10: for every value built from nulls, booleans, integers, the strings of
\* the claim and arrays and objects of these, loading valueToYaml(v, 0) of
\* extension.ts as YAML gives back a value structurally equal to v.
C10_RoundTrip ==
  (mode = "emit" /\ pc = "return" /\ impl = "extension" /\ indent = 0
     /\ RoundTrippable(value)) =>
    Normal(YamlLoad(yaml)) = Normal(value)

IsEmptyContainer(v) == v = Arr(<<>>) \/ v = Obj(<<>>)

EmptyText(v) == IF v.t = "arr" THEN <<"[", "]">> ELSE <<"{", "}">>

\* the members of a container in the order they are rendered, each with its prefix
Members(v) ==
  IF v.t = "arr" THEN [j \in 1..Len(v.a) |-> [prefix |-> <<"-", SP>>, v |-> v.a[j]]]
  ELSE LET ps == ObjectKeys(v.o)
       IN  [j \in 1..Len(ps) |-> [prefix |-> keyStr(ps[j].k) \o <<":", SP>>, v |-> ps[j].v]]

RECURSIVE Flatten(_)
Flatten(bs) == IF Len(bs) = 0 THEN <<>> ELSE bs[1] \o Flatten(Tail(bs))

\* the rendering of the container v at indent ind gives every empty container
\* among its members '[]' or '{}' on the line of its prefix, and so do the
\* renderings of its non-empty containers, at whatever depth
RECURSIVE EmptiesInline(_, _, _)
EmptiesInline(im, v, ind) ==
  LET ms == Members(v)
  IN  /\ valueToYaml(im, v, ind) =
           Join(Flatten([j \in 1..Len(ms) |->
                  IF IsEmptyContainer(ms[j].v)
                  THEN <<Spaces(ind) \o ms[j].prefix \o EmptyText(ms[j].v)>>
                  ELSE AttachLines(im, valueToYaml(im, ms[j].v, ind + 2),
                                   ms[j].prefix, Spaces(ind))]), <<NL>>)
      /\ \A j \in 1..Len(ms) :
           (ms[j].v.t \in {"arr", "obj"} /\ ~IsEmptyContainer(ms[j].v)) =>
             EmptiesInline(im, ms[j].v, ind + 2)

\* C11: an empty array renders as '[]' and an empty object as '{}' at every
\* indent and nesting position; they are never expanded into block form and,
\* as an array element or an object value, sit on the line of their '- ' or
\* 'key: ' prefix.
C11_EmptyContainers ==
  (mode = "emit" /\ pc = "return") =>
    /\ value = Arr(<<>>) => yaml = <<"[", "]">>
    /\ value = Obj(<<>>) => yaml = <<"{", "}">>
    /\ (value.t \in {"arr", "obj"} /\ ~IsEmptyContainer(value)) =>
         (yaml = valueToYaml(impl, value, indent) /\ EmptiesInline(impl, value, indent))

\* an empty object two levels down has been rendered on the line of its key
C11_Witness ==
  /\ mode = "emit" /\ pc = "return" /\ indent = 2
  /\ value.t = "arr" /\ Len(value.a) = 2
  /\ value.a[2] = Obj(<<Prop(<<"b">>, Str(<<"c", ":", SP, "d">>)), Prop(<<"1">>, Obj(<<>>))>>)
  /\ Includes(yaml, <<NL>> \o Spaces(4) \o <<DQ, "1", DQ, ":", SP, "{", "}">>)

\* the YAML output the README example shows for ReadmeJsonl
ReadmeYaml ==
  << "-", SP, "a", "g", "e", ":", SP, "3", "0", NL, SP, SP, "c", "i", "t",
     "y", ":", SP, DQ, "N", "e", "w", SP, "Y", "o", "r", "k", DQ, NL, SP,
     SP, "n", "a", "m", "e", ":", SP, DQ, "J", "o", "h", "n", DQ, NL, "-",
     SP, "a", "g", "e", ":", SP, "2", "5", NL, SP, SP, "c", "i", "t", "y",
     ":", SP, DQ, "S", "a", "n", SP, "F", "r", "a", "n", "c", "i", "s",
     "c", "o", DQ, NL, SP, SP, "n", "a", "m", "e", ":", SP, DQ, "J", "a",
     "n", "e", DQ >>

AllRecordsValid(ls) ==
  /\ \E n \in 1..Len(ls) : Trim(ls[n]) # <<>>
  /\ \A n \in 1..Len(ls) :
       Trim(ls[n]) # <<>> =>
         (JsonParse(Trim(ls[n])).ok /\ JsonParse(Trim(ls[n])).v.t = "obj"
            /\ JsonParse(Trim(ls[n])).v.o # <<>>)

\* C12: JSONL to YAML as the README example shows it: the records are the
\* items of one YAML sequence, so the output for the README input is the
\* README output (keys in alphabetical order, "New York" in double quotes),
\* and whenever every record is a non-empty object each line of the output is
\* the '- ' line of a record or a line indented two spaces.
C12_ReadmeExample ==
  (mode = "jsonl" /\ pc = "done") =>
    /\ text = ReadmeJsonl => output = ReadmeYaml
    /\ AllRecordsValid(lines) =>
         \A l \in {Split(output)[n] : n \in 1..Len(Split(output))} :
           StartsWith(l, <<"-", SP>>) \/ StartsWith(l, <<SP, SP>>)

\* a member that valueToYaml renders as a block literal
IsBlockLiteral(v) ==
  v.t = "str" /\ IsFormatted(v.s) /\ (Includes(v.s, <<NL>>) \/ Includes(v.s, <<":", SP>>))

\* the lines the claim gives a member rendered as y under its prefix at indent n
Attached(v, y, prefix, n) ==
  LET ls == Split(y)
  IN  IF ~Includes(y, <<NL>>) /\ ~StartsWith(y, <<SP>>)
      THEN <<Spaces(n) \o prefix \o y>>
      ELSE IF IsBlockLiteral(v)
      THEN <<Spaces(n) \o prefix \o ls[1]>>
             \o [j \in 1..(Len(ls) - 1) |-> Spaces(n + 2) \o ls[j + 1]]
      ELSE <<Spaces(n) \o prefix>> \o ls

\* C13: a nested value is attached to its '- ' or 'key: ' prefix at indent n
\* as follows: a single line that starts with no space follows the prefix on
\* its line; a block literal puts its marker ('|', '|+' or '|-') on the prefix
\* line and every content line behind n + 2 added spaces; any other value (a
\* non-empty array or object) leaves the prefix alone on its line, followed by
\* the lines of the value unchanged.
C13_Attachment ==
  (mode = "emit" /\ pc = "return" /\ value.t \in {"arr", "obj"} /\ ~IsEmptyContainer(value)) =>
    LET ms == Members(value)
    IN  /\ yaml = Join(Flatten([j \in 1..Len(ms) |->
                     Attached(ms[j].v, valueToYaml(impl, ms[j].v, indent + 2),
                              ms[j].prefix, indent)]), <<NL>>)
        /\ \A j \in 1..Len(ms) :
             IsBlockLiteral(ms[j].v) =>
               Split(valueToYaml(impl, ms[j].v, indent + 2))[1]
                 \in {<<"|">>, <<"|", "+">>, <<"|", "-">>}

\* a block literal and a nested object have been attached at indent 2
C13_Witness ==
  /\ mode = "emit" /\ pc = "return" /\ indent = 2 /\ impl = "extension"
  /\ value = Obj(<<Prop(<<"k">>, Obj(<<Prop(<<"b">>, Str(<<"c", ":", SP, "d">>)),
                                       Prop(<<"1">>, Obj(<<>>))>>))>>)
  /\ yaml = Join(<< <<SP, SP, "k", ":", SP>>,
                    Spaces(4) \o <<DQ, "1", DQ, ":", SP, "{", "}">>,
                    Spaces(4) \o <<"b", ":", SP, "|", "-">>,
                    Spaces(6) \o <<"c", ":", SP, "d">> >>, <<NL>>)

\* the Scalar Classifier, rule by rule
Flagged(k) ==
  \/ (k # <<>> /\ k[1] \in {SP, TAB, NL, CR, "-", ":", "{", "}", "[", "]", ",", "&", "*",
                             "#", "?", "|", "<", ">", "=", "!", "%", "@", GRAVE})
  \/ (k # <<>> /\ k[1] \in Digits)
  \/ [j \in 1..Len(k) |-> Lower(k[j])] \in ReservedWords
  \/ (k # <<>> /\ \A j \in 1..Len(k) : k[j] \in Digits \cup {"."})

\* the form the claim gives a key
KeyForm(k) == IF Flagged(k) THEN <<DQ>> \o escapeString(k) \o <<DQ>> ELSE k

\* C14: an object key is emitted double-quoted, with the escaped body, exactly
\* when the Scalar Classifier flags it, and verbatim otherwise: every entry of
\* a rendered object is its value attached to that form of the key and ': '.
C14_KeyQuoting ==
  (mode = "emit" /\ pc = "return" /\ value.t = "obj" /\ value.o # <<>>) =>
    LET ps == ObjectKeys(value.o)
    IN  /\ yaml = Join(Flatten([j \in 1..Len(ps) |->
                     AttachLines(impl, valueToYaml(impl, ps[j].v, indent + 2),
                                 KeyForm(ps[j].k) \o <<":", SP>>, Spaces(indent))]), <<NL>>)
        /\ value = Obj(<<Prop(<<"-", DQ>>, Null)>>) =>
             yaml = Spaces(indent) \o <<DQ, "-", BS, DQ, DQ, ":", SP, "n", "u", "l", "l">>
        /\ value = Obj(<<Prop(<<"a", DQ>>, Null)>>) =>
             yaml = Spaces(indent) \o <<"a", DQ, ":", SP, "n", "u", "l", "l">>

\* a reserved word has been quoted as a key and a key of two words left verbatim
C14_Witness ==
  /\ mode = "emit" /\ pc = "return" /\ indent = 2
  /\ value = Obj(<<Prop(<<"N", "o">>, Bool(TRUE)), Prop(<<"a", SP, "b">>, Bool(TRUE))>>)
  /\ yaml = <<SP, SP, DQ, "N", "o", DQ, ":", SP, "t", "r", "u", "e", NL,
              SP, SP, "a", SP, "b", ":", SP, "t", "r", "u", "e">>

OtherImpl(im) == IF im = "converter" THEN "extension" ELSE "converter"

\* C15: the two emitters of the repository are duplicates: for every JSON text
\* the YAML that jsonToYaml of one file returns is the YAML that jsonToYaml of
\* the other returns, for empty strings and block literals too; so is every
\* block the Record Driver collects.
C15_DuplicateEmitters ==
  /\ (mode = "json" /\ pc = "done") =>
       (jsonToYaml(OtherImpl(impl), Trim(text)).ok
          /\ output = jsonToYaml(OtherImpl(impl), Trim(text)).yaml)
  /\ (mode = "jsonl" /\ pc = "done") =>
       output = Join(IsolatedEntries(OtherImpl(impl), lines, Len(lines)), <<NL, NL>>)

\* a line that starts with exactly n spaces
IndentedExactly(l, n) == Len(l) > n /\ StartsWith(l, Spaces(n)) /\ l[n + 1] # SP

\* C16: in the rendering of a non-empty array or object at indent n every line
\* starts with at least n spaces, the lines that introduce the entries (one per
\* element or key) start with exactly n spaces, and every other line, which
\* belongs to a nested value, starts with at least n + 2 spaces.
C16_Indentation ==
  (mode = "emit" /\ pc = "return" /\ value.t \in {"arr", "obj"} /\ ~IsEmptyContainer(value)) =>
    LET ls == Split(yaml)
        own == {j \in 1..Len(ls) : IndentedExactly(ls[j], indent)}
    IN  /\ \A j \in 1..Len(ls) : StartsWith(ls[j], Spaces(indent))
        /\ Cardinality(own) = Len(Members(value))
        /\ \A j \in (1..Len(ls)) \ own : StartsWith(ls[j], Spaces(indent + 2))

\* the text of a null, a boolean or a number
ScalarText(v) ==
  CASE v.t = "null" -> <<"n", "u", "l", "l">>
    [] v.t = "bool" -> IF v.b THEN <<"t", "r", "u", "e">> ELSE <<"f", "a", "l", "s", "e">>
    [] v.t = "num" -> v.n

\* C17: for an object whose values are all null, booleans or numbers, whatever
\* its keys (empty, or holding a line break, a double quote or ': '), the
\* rendering has exactly one line per key, and the line of a key is the
\* indent, the rendered form of the key, ': ' and the value.
C17_OneLinePerEntry ==
  (mode = "emit" /\ pc = "return" /\ value.t = "obj" /\ value.o # <<>>
     /\ \A j \in 1..Len(value.o) : value.o[j].v.t \in {"null", "bool", "num"}) =>
    LET ps == ObjectKeys(value.o)
        ls == Split(yaml)
    IN  /\ Len(ls) = Len(ps)
        /\ \A j \in 1..Len(ps) :
             ls[j] = Spaces(indent) \o KeyForm(ps[j].k) \o <<":", SP>> \o ScalarText(ps[j].v)

=============================================================================
